---- MODULE Spec2Model ----
(***************************************************************************)
(* Model of the infinite-loop detector runtime of js-slang                 *)
(* (src/infiniteLoops/runtime.ts): the hook functions called by the        *)
(* instrumented program, the dispatch policy, the is_null override and the *)
(* driver testForInfiniteLoop.  The classes and functions the runtime      *)
(* imports (state.ts, symbolic.ts, detect.ts, stdlib/list) are modelled    *)
(* from their description in the specification.                            *)
(***************************************************************************)
EXTENDS Integers, Sequences, FiniteSets, TLC

VARIABLES
  state,      \* the st.State object of the current run
  prog,       \* the program under test: loop descriptors, outermost first
  env,        \* the program's variables: name -> value
  pc,         \* position of the instrumented program / the driver
  ret,        \* value returned by the last hook call
  lastHook,   \* name of the last hook the program called
  result,     \* what testForInfiniteLoop returned
  run,        \* 1 or 2: which of two runs on the same input this is
  verdict1,   \* result of the first run
  hist,       \* history variables (observations only, never read by hooks)
  call        \* the hook call that is stepped through: arguments and locals

vars ==
  <<state, prog, env, pc, ret, lastHook, result, run, verdict1, hist, call>>

----------------------------------------------------------------------------
(* Bounds of the model *)

MaxThreshold == 2   \* thresholds 1..MaxThreshold are configured
GuardBound   == 3   \* loop guards compare against GuardBound

\* a loop tracker grows to at most MaxFrames frames: room for a loop that
\* drifts one step away from its bound and then counts up to it
MaxFrames == 2 * GuardBound

Thresholds == 1..MaxThreshold

----------------------------------------------------------------------------
(* Values.  A JS value is a record: hybrid = FALSE for plain concrete      *)
(* values; hybrid values carry a kind (type), the concrete value, a        *)
(* symbolic expression, the invalid-path flag and an optional negation.    *)

NoExpr == [type |-> "None", var |-> "", op |-> "", k |-> 0, bang |-> FALSE]

Identifier(name) ==
  [type |-> "Identifier", var |-> name, op |-> "", k |-> 0, bang |-> FALSE]

Literal(k) == [type |-> "Literal", var |-> "", op |-> "", k |-> k, bang |-> FALSE]

BinaryExpression(name, op, k) ==
  [type |-> "BinaryExpression", var |-> name, op |-> op, k |-> k, bang |-> FALSE]

\* concrete JS values: t is the JS type, n the payload
Num(n)     == [t |-> "number", n |-> n]
Bool(b)    == [t |-> "boolean", n |-> IF b THEN 1 ELSE 0]
JSUndefined == [t |-> "undefined", n |-> 0]

Truthy(c) ==
  CASE c.t = "boolean"   -> c.n = 1
    [] c.t = "number"    -> c.n # 0
    [] c.t = "undefined" -> FALSE
    [] c.t = "null"      -> FALSE
    [] OTHER             -> TRUE

Concrete(c) ==
  [hybrid |-> FALSE, type |-> "value", concrete |-> c, symbolic |-> NoExpr,
   invalid |-> FALSE, negation |-> NoExpr]

Hybrid(kind, c, e, inv, neg) ==
  [hybrid |-> TRUE, type |-> kind, concrete |-> c, symbolic |-> e,
   invalid |-> inv, negation |-> neg]

UndefinedValue == Concrete(JSUndefined)

isHybrid(v) == v.hybrid

shallowConcretize(v) == IF isHybrid(v) THEN Concrete(v.concrete) ELSE v

deepConcretizeInplace(v) == IF isHybrid(v) THEN Concrete(v.concrete) ELSE v

hybridizeNamed(name, v) ==
  IF isHybrid(v) \/ v.concrete.t \in {"undefined", "function"}
  THEN v
  ELSE Hybrid("value", v.concrete, Identifier(name), FALSE, NoExpr)

NegOp(op) ==
  CASE op = "<" -> ">=" [] op = ">" -> "<=" [] op = ">=" -> "<" [] op = "<=" -> ">"
    [] OTHER -> op

Compare(op, a, b) ==
  CASE op = "<" -> a < b [] op = ">" -> a > b [] op = ">=" -> a >= b
    [] op = "<=" -> a <= b [] OTHER -> FALSE

\* left  op  <number literal k>
evaluateHybridBinary(op, left, k) ==
  LET c == IF op = "+" THEN Num(left.concrete.n + k)
                       ELSE Bool(Compare(op, left.concrete.n, k))
  IN IF ~isHybrid(left) THEN Concrete(c)
     ELSE Hybrid("value", c,
                 BinaryExpression(left.symbolic.var, op, k),
                 left.invalid \/ left.concrete.t # "number",
                 IF op = "+" THEN NoExpr
                 ELSE BinaryExpression(left.symbolic.var, NegOp(op), k))

unaryExpression(e) == [e EXCEPT !.bang = TRUE]   \* create.unaryExpression('!', e)

----------------------------------------------------------------------------
(* Execution state (class State of state.ts) *)

VarNames == <<"v1", "v2", "v3", "v4">>
Vars     == {VarNames[i] : i \in 1..Len(VarNames)}

FunNames     == {"f", "g"}
TrackerNames == FunNames \cup {"*f", "*g"}
Starred(name) == IF name = "f" THEN "*f" ELSE IF name = "g" THEN "*g" ELSE name
NoName == ""

NoLoc == 0          \* an undefined source location

NoValue ==
  [hybrid |-> FALSE, type |-> "absent", concrete |-> JSUndefined,
   symbolic |-> NoExpr, invalid |-> FALSE, negation |-> NoExpr]

NoError == [name |-> NoName, location |-> NoLoc]

Frame(s) ==
  [loc |-> s.lastLocation, vars |-> s.variablesModified,
   path |-> NoExpr, invalid |-> FALSE]

\* new st.State(): nothing recorded, one root frame to hold top-level paths
NewState(threshold, streamThreshold) ==
  [threshold |-> threshold,
   streamThreshold |-> streamThreshold,
   expired |-> FALSE,
   loopStack |-> << >>,
   mixedStack |-> << [loc |-> NoLoc, vars |-> [v \in Vars |-> NoValue],
                      path |-> NoExpr, invalid |-> FALSE] >>,
   variablesModified |-> [v \in Vars |-> NoValue],
   variablesToReset |-> {},
   lastLocation |-> NoLoc,
   functionTrackers |-> [n \in TrackerNames |-> << >>],
   functionStack |-> << >>,
   functionWasPassedAsArgument |-> FALSE,
   streamMode |-> FALSE,
   streamLastFunction |-> NoName,
   streamCounts |-> [n \in FunNames \cup {NoName} |-> 0],
   thrown |-> "none",
   error |-> NoError,
   inferences |-> 0]

hasTimedOut(s) == s.expired

Throw(s, kind) == [s EXCEPT !.thrown = kind]

\* push a frame; its position is the new length of mixedStack
newStackFrame(s) == [s EXCEPT !.mixedStack = Append(@, Frame(s))]

stackPointer(s) == Len(s.mixedStack)

cleanUpVariables(s) ==
  [s EXCEPT !.variablesToReset =
     @ \cup {v \in Vars : isHybrid(s.variablesModified[v])}]

savePath(s, e) == [s EXCEPT !.mixedStack[stackPointer(s)].path = e]

setInvalidPath(s) == [s EXCEPT !.mixedStack[stackPointer(s)].invalid = TRUE]

State_exitLoop(s) == [s EXCEPT !.loopStack = Tail(@)]

----------------------------------------------------------------------------
(* Non-termination inference (detect.ts: checkForInfiniteLoop) *)

FramesAt(s, stackPositions) ==
  [i \in 1..Len(stackPositions) |-> s.mixedStack[stackPositions[i]]]

\* the guard  var op k  (negated when bang) holds of the number n
PathHolds(e, n) == IF e.bang THEN ~Compare(e.op, n, e.k) ELSE Compare(e.op, n, e.k)

\* a step of d per iteration never falsifies the guard
KeepsTrue(e, d) ==
  LET up == (e.op \in {">", ">="}) # e.bang
  IN d = 0 \/ (up /\ d > 0) \/ (~up /\ d < 0)

\* "certainly infinite": the path is tracked and the same in every frame of the
\* window, and the variable it reads is stable or moves by one fixed step in
\* the direction that keeps the guard true; one frame alone shows no trend
CertainlyInfinite(frames) ==
  /\ Len(frames) >= 2
  /\ \A i \in 1..Len(frames) :
       /\ ~frames[i].invalid
       /\ frames[i].path.type = "BinaryExpression"
       /\ frames[i].path = frames[1].path
  /\ LET e == frames[1].path
         val(i) == frames[i].vars[e.var]
     IN /\ e.var \in Vars
        /\ \A i \in 1..Len(frames) :
             /\ isHybrid(val(i)) /\ ~val(i).invalid
             /\ val(i).concrete.t = "number"
             /\ val(i).symbolic.var = e.var
             /\ PathHolds(e, val(i).concrete.n)
        /\ \A i \in 2..Len(frames) :
             val(i).concrete.n - val(i-1).concrete.n
               = val(2).concrete.n - val(1).concrete.n
        /\ KeepsTrue(e, val(2).concrete.n - val(1).concrete.n)

checkForInfiniteLoop(stackPositions, s, functionName) ==
  LET s1 == [s EXCEPT !.inferences = @ + 1]
  IN IF CertainlyInfinite(FramesAt(s, stackPositions))
     THEN [s1 EXCEPT !.thrown = "InfiniteLoopError",
                     !.error = [name |-> functionName, location |-> s.lastLocation]]
     ELSE s1

----------------------------------------------------------------------------
(* Hook functions (runtime.ts) *)

checkTimeout(s) == IF hasTimedOut(s) THEN Throw(s, "timeout") ELSE s

\* mutant: the checkpoints grow by one instead of doubling
NextCheckpointLinear(checkpoint) == checkpoint + 1

\* checkpoint = checkpoint * 2
NextCheckpoint(checkpoint) == checkpoint * 2

\* the while loop of dispatchIfMeetsThreshold, from the given checkpoint on
RECURSIVE DispatchFrom(_, _, _, _)
DispatchFrom(checkpoint, stackPositions, s, functionName) ==
  IF s.thrown = "none" /\ checkpoint <= Len(stackPositions)
  THEN DispatchFrom(NextCheckpoint(checkpoint), stackPositions,
                    IF Len(stackPositions) = checkpoint
                    THEN checkForInfiniteLoop(stackPositions, s, functionName)
                    ELSE s,
                    functionName)
  ELSE s

\* mutant: while (checkpoint < stackPositions.length): the loop is left before
\* the length can equal the checkpoint, so the inference never runs
dispatchStrict(stackPositions, s, functionName) ==
  IF \E k \in 0..Len(stackPositions) :
       /\ s.threshold * 2^k < Len(stackPositions)
       /\ s.threshold * 2^k = Len(stackPositions)
  THEN checkForInfiniteLoop(stackPositions, s, functionName)
  ELSE s

\* mutant: the inference runs at every length from the threshold on
dispatchEveryTime(stackPositions, s, functionName) ==
  IF Len(stackPositions) >= s.threshold
  THEN checkForInfiniteLoop(stackPositions, s, functionName)
  ELSE s

dispatchIfMeetsThreshold(stackPositions, s, functionName) ==
  DispatchFrom(s.threshold, stackPositions, s, functionName)

\* mutant: the new tracker is pushed at the back of the loop stack
enterLoopAtBack(s) ==
  LET s1 == newStackFrame(s)
  IN [s1 EXCEPT !.loopStack = @ \o << <<stackPointer(s1)>> >>]

enterLoop(s) ==
  LET s1 == newStackFrame(s)
  IN [s1 EXCEPT !.loopStack = << <<stackPointer(s1)>> >> \o @]

\* mutant: the dispatch is handed the whole tracker, its newest frame included
postLoopWholeTracker(s) ==
  LET s0 == checkTimeout(s)
      previousIterations == s.loopStack[1]
      s1 == dispatchIfMeetsThreshold(previousIterations, s0, NoName)
      s2 == cleanUpVariables(s1)
      s3 == newStackFrame(s2)
  IN IF s0.thrown # "none" THEN s0
     ELSE IF s1.thrown # "none" THEN s1
     ELSE [s3 EXCEPT !.loopStack[1] = Append(@, stackPointer(s3))]

postLoop(s) ==
  LET s0 == checkTimeout(s)
      previousIterations == s.loopStack[1]
      s1 == dispatchIfMeetsThreshold(
              SubSeq(previousIterations, 1, Len(previousIterations) - 1), s0, NoName)
      s2 == cleanUpVariables(s1)
      s3 == newStackFrame(s2)
  IN IF s0.thrown # "none" THEN s0
     ELSE IF s1.thrown # "none" THEN s1
     ELSE [s3 EXCEPT !.loopStack[1] = Append(@, stackPointer(s3))]

exitLoop(s) == State_exitLoop(cleanUpVariables(s))

\* hybridize returns a value and leaves the state alone
hybridize(originalValue, name, s) ==
  IF originalValue.concrete.t = "function" THEN originalValue
  ELSE hybridizeNamed(name,
         IF name \in s.variablesToReset
         THEN deepConcretizeInplace(originalValue)
         ELSE originalValue)

saveVarIfHybrid(value, name, s) ==
  LET s1 == [s EXCEPT !.variablesToReset = @ \ {name}]
  IN IF isHybrid(value)
     THEN [s1 EXCEPT !.variablesModified[name] = value]
     ELSE s1

\* mutant: a value that is no hybrid leaves the path valid
saveBoolKeepsPath(value, s) ==
  IF isHybrid(value) /\ value.type = "value"
  THEN IF value.invalid THEN setInvalidPath(s)
       ELSE IF value.symbolic.type # "Literal"
       THEN savePath(s,
              IF ~Truthy(value.concrete)
              THEN (IF value.negation # NoExpr THEN value.negation
                    ELSE unaryExpression(value.symbolic))
              ELSE value.symbolic)
       ELSE s
  ELSE s

\* mutant: a falsy value saves its own expression, not the negation
saveBoolDropsNegation(value, s) ==
  IF isHybrid(value) /\ value.type = "value"
  THEN IF value.invalid THEN setInvalidPath(s)
       ELSE IF value.symbolic.type # "Literal"
       THEN savePath(s, value.symbolic)
       ELSE s
  ELSE setInvalidPath(s)

saveBoolIfHybrid(value, s) ==
  IF isHybrid(value) /\ value.type = "value"
  THEN IF value.invalid THEN setInvalidPath(s)
       ELSE IF value.symbolic.type # "Literal"
       THEN savePath(s,
              IF ~Truthy(value.concrete)
              THEN (IF value.negation # NoExpr THEN value.negation
                    ELSE unaryExpression(value.symbolic))
              ELSE value.symbolic)
       ELSE s
  ELSE setInvalidPath(s)

\* what saveBoolIfHybrid returns to the program
saveBoolIfHybridResult(value) ==
  IF isHybrid(value) /\ value.type = "value"
  THEN shallowConcretize(value)
  ELSE value

\* mutant: a node without location leaves the last location as it was
trackLocIfDefined(loc, s) ==
  IF loc # NoLoc THEN [s EXCEPT !.lastLocation = loc] ELSE s

trackLoc(loc, s) == [s EXCEPT !.lastLocation = loc]

\* what trackLoc returns: the thunk's value, or undefined without a thunk
trackLocResult(hasThunk, thunkValue) ==
  IF hasThunk THEN thunkValue ELSE UndefinedValue

\* State.enterFunction: the tracker of the name, whether this is its first
\* invocation, and the name becomes the current function
enterFunction(s, newName) == [s EXCEPT !.functionStack = Append(@, newName)]

firstIteration(s, newName) == s.functionTrackers[newName] = << >>

getLastFunctionName(s) ==
  IF s.functionStack = << >> THEN NoName
  ELSE s.functionStack[Len(s.functionStack)]

returnLastFunction(s) ==
  [s EXCEPT !.functionStack =
     IF @ = << >> THEN @ ELSE SubSeq(@, 1, Len(@) - 1)]

\* the arguments go into the newest frame the tracker holds
RECURSIVE BindArgs(_, _)
BindArgs(bindings, args) ==
  IF args = << >> THEN bindings
  ELSE BindArgs([bindings EXCEPT ![args[1][1]] = args[1][2]], Tail(args))

saveArgsInTransition(args, tracker, s) ==
  [s EXCEPT !.mixedStack[tracker[Len(tracker)]].vars = BindArgs(@, args)]

\* mutant: the wrapper calls its target without raising the flag
wrapperKeepsFlag(s) == s

\* the wrapper wrapArgIfFunction returns for a function: it raises the flag,
\* then calls the function it wraps
wrapperInvoke(s) == [s EXCEPT !.functionWasPassedAsArgument = TRUE]

preFunction(name, args, s) ==
  LET s0 == checkTimeout(s)
      passed == s.functionWasPassedAsArgument
      newName == IF passed THEN Starred(name) ELSE name
      first == firstIteration(s0, newName)
      s1 == enterFunction(s0, newName)
      tracker == s1.functionTrackers[newName]
      s2 == saveArgsInTransition(args, tracker, cleanUpVariables(s1))
      s3 == IF first THEN s1
            ELSE IF passed THEN s2
            ELSE dispatchIfMeetsThreshold(
                   SubSeq(tracker, 1, Len(tracker) - 1), s2, name)
      s4 == newStackFrame(s3)
  IN IF s0.thrown # "none" THEN s0
     ELSE IF s3.thrown # "none" THEN s3
     ELSE [s4 EXCEPT !.functionTrackers[newName] = Append(@, stackPointer(s4)),
                     !.functionWasPassedAsArgument = FALSE]

returnFunction(value, s) ==
  LET s1 == cleanUpVariables(s)
  IN IF ~s1.streamMode THEN returnLastFunction(s1) ELSE s1

\* lists and streams (stdlib/list): null, a pair, or a pair whose tail is a
\* function (a stream); n is the number of elements the tail still yields,
\* -1 for a stream without end
Null       == [t |-> "null", n |-> 0]
Pair       == [t |-> "pair", n |-> 0]
Stream(n)  == [t |-> "stream", n |-> n]

stdList_is_null(c) == c.t = "null"

stdList_is_pair(c) == c.t \in {"pair", "stream"}

\* typeof xs[1] === 'function'
TailIsFunction(c) == stdList_is_pair(c) /\ c.t = "stream"

\* theTail(): the rest of the stream
CallTail(c) ==
  IF c.n = 0 THEN Null ELSE IF c.n < 0 THEN c ELSE Stream(c.n - 1)

\* the probe ends in throw new Error('timeout'), however it leaves its loop
testIfInfiniteStream(stream, s) == Throw(s, "timeout")

\* mutant: let count = 0 for a function not counted yet
StreamCountFromZero(s, lastFunction) == s.streamCounts[lastFunction]

\* state.streamCounts.get(lastFunction), 1 when there is none
StreamCount(s, lastFunction) ==
  IF s.streamCounts[lastFunction] = 0 THEN 1 ELSE s.streamCounts[lastFunction]

\* builtinSpecialCases.is_null: its effect on the state it is given
is_null(maybeHybrid, hasState, s) ==
  LET xs == shallowConcretize(maybeHybrid).concrete
      isStream == TailIsFunction(xs)
      lastFunction == getLastFunctionName(s)
      count == StreamCount(s, lastFunction)
      s1 == IF count > s.streamThreshold
            THEN [s EXCEPT !.streamMode = TRUE, !.streamLastFunction = lastFunction]
            ELSE s
  IN IF hasState /\ isStream
     THEN IF s.streamMode /\ s.streamLastFunction = lastFunction
          THEN testIfInfiniteStream(Concrete(CallTail(xs)), s)
          ELSE [s1 EXCEPT !.streamCounts[lastFunction] = count + 1]
     ELSE s

\* what is_null returns when it returns
is_nullResult(maybeHybrid, hasState) ==
  LET xs == shallowConcretize(maybeHybrid).concrete
  IN IF hasState /\ TailIsFunction(xs) THEN UndefinedValue
     ELSE Concrete(Bool(stdList_is_null(xs)))

----------------------------------------------------------------------------
(* The driver and the instrumented programs it runs.  A program is a nest  *)
(* of counting loops                                                       *)
(*     let v = <tracked 0>; enterLoop;                                     *)
(*     while (saveBool(v op bound)) {                                      *)
(*        [if (saveBool(<untracked: has v left 0?>)) turn towards bound]   *)
(*        [nested loop]                                                    *)
(*        v = v + step; postLoop }                                         *)
(*     exitLoop                                                            *)
(* A program is one such loop, or one with a second loop nested in its     *)
(* body; loop k uses variable VarNames[k].  cond says whether the body has the branch on a   *)
(* value the detector cannot track, and how that value reaches saveBool:   *)
(* as a plain concrete value or as a dummy (invalid-path) hybrid.          *)

Descs == [op : {"<", ">"}, step : {-1, 0, 1}, cond : {"none", "plain", "dummy"}]

PlainDesc == [op |-> "<", step |-> 1, cond |-> "none"]

FlagNames == <<"t1", "t2", "t3", "t4">>
Flags     == {FlagNames[i] : i \in 1..Len(FlagNames)}

\* makeDummyHybrid: a symbolic value of unknown provenance
makeDummyHybrid(c) == Hybrid("value", c, Identifier("?"), TRUE, NoExpr)

\* the step towards the value that falsifies the guard
Towards(d) == IF d.op = "<" THEN 1 ELSE -1

\* the loop leaves within `fuel` more iterations (v: its variable, t: turned)
RECURSIVE ExitsWithin(_, _, _, _)
ExitsWithin(d, v, t, fuel) ==
  IF ~Compare(d.op, v, IF d.op = "<" THEN GuardBound ELSE -GuardBound) THEN TRUE
  ELSE IF fuel = 0 THEN FALSE
  ELSE LET t1 == t \/ (d.cond # "none" /\ v # 0)
       IN ExitsWithin(d, v + (IF t1 THEN Towards(d) ELSE d.step), t1, fuel - 1)

LoopExits(d) == ExitsWithin(d, 0, FALSE, 3 * GuardBound)

InnerDescs == {d \in Descs : d.op = "<" /\ d.cond # "dummy"}

Programs ==
  { [depth |-> d, outer |-> o, inner |-> i, threshold |-> t] :
      d \in {1, 2}, o \in Descs, i \in InnerDescs, t \in Thresholds }

DescOf(k) == IF k = 1 THEN prog.outer ELSE prog.inner

BoundOf(d) == IF d.op = "<" THEN GuardBound ELSE -GuardBound

\* source locations: the declaration and guard of loop k, and its update
\* statement (in a nested loop a synthesized node, which has no location)
GuardLoc(k)  == 2 * k
UpdateLoc(k) == IF k = 1 THEN 1 ELSE NoLoc

NoResult == [kind |-> "pending", name |-> NoName, location |-> NoLoc]

NoHist ==
  [tracked |-> FALSE, lastTrackLoc |-> NoLoc,
   entered |-> << >>, posts |-> << >>, checks |-> << >>, offered |-> << >>]

At(where, depth) == [at |-> where, depth |-> depth]

Running == pc.at \notin {"thrown", "done", "returned"}

\* where the program goes after a hook call: on to `next`, or to the handler
After(s, next) == IF s.thrown # "none" THEN At("thrown", pc.depth) ELSE next

NoCall ==
  [name |-> "none", at |-> "none", stackPositions |-> << >>,
   functionName |-> NoName, checkpoint |-> 0, invoked |-> 0, analysed |-> << >>]

NoVerdict == [result |-> NoResult, timedOut |-> FALSE]

\* mutant: one State object is kept and used again by the next run
ReusedState(old, threshold) ==
  [old EXCEPT !.thrown = "none", !.error = NoError, !.expired = FALSE]

\* const state = new st.State(): every run gets a State of its own
FreshState(old, threshold) == NewState(threshold, threshold)

Init ==
  /\ prog \in Programs
  /\ prog.depth = 1 => prog.inner = PlainDesc
  /\ state = FreshState(NewState(prog.threshold, prog.threshold), prog.threshold)
  /\ env = [v \in Vars \cup Flags |-> NoValue]
  /\ pc = At("enter", 0)
  /\ ret = UndefinedValue
  /\ lastHook = "none"
  /\ result = NoResult
  /\ run = 1
  /\ verdict1 = NoVerdict
  /\ hist = NoHist
  /\ call = NoCall

\* let v = <tracked 0>;  enterLoop(state)
Enter ==
  /\ pc.at = "enter"
  /\ LET k  == pc.depth + 1
         v  == VarNames[k]
         s1 == trackLoc(GuardLoc(k), state)
         x  == hybridize(Concrete(Num(0)), v, s1)
         s2 == saveVarIfHybrid(x, v, s1)
         s3 == enterLoop(s2)
     IN /\ state' = s3
        /\ env' = [env EXCEPT ![v] = x, ![FlagNames[k]] = Concrete(Bool(FALSE))]
        /\ pc' = At("guard", k)
        /\ ret' = UndefinedValue
        /\ lastHook' = "enterLoop"
        /\ hist' = [hist EXCEPT !.tracked = TRUE, !.lastTrackLoc = GuardLoc(k),
                                !.entered = <<stackPointer(s3)>> \o @,
                                !.posts = <<0>> \o @,
                                !.checks = <<0>> \o @,
                                !.offered = << << >> >> \o @]
  /\ UNCHANGED <<call, prog, result, run, verdict1>>

\* while (trackLoc(loc, () => saveBool(v op bound)))
Guard ==
  /\ pc.at = "guard"
  /\ LET k  == pc.depth
         d  == DescOf(k)
         v  == VarNames[k]
         s1 == trackLoc(GuardLoc(k), state)
         g  == evaluateHybridBinary(d.op, hybridize(env[v], v, s1), BoundOf(d))
         s2 == saveBoolIfHybrid(g, s1)
         b  == trackLocResult(TRUE, saveBoolIfHybridResult(g))
     IN /\ state' = s2
        /\ ret' = b
        /\ pc' = IF ~Truthy(b.concrete) THEN At("exit", k)
                 ELSE IF d.cond # "none" THEN At("branch", k)
                 ELSE IF k < prog.depth THEN At("enter", k)
                 ELSE At("update", k)
        /\ lastHook' = "saveBool"
        /\ hist' = [hist EXCEPT !.tracked = TRUE, !.lastTrackLoc = GuardLoc(k)]
  /\ UNCHANGED <<call, prog, env, result, run, verdict1>>

\* if (saveBool(<untracked: has v left 0?>)) turned = true
Branch ==
  /\ pc.at = "branch"
  /\ LET k == pc.depth
         b == Bool(env[FlagNames[k]].concrete.n = 1
                   \/ env[VarNames[k]].concrete.n # 0)
         c == IF DescOf(k).cond = "dummy" THEN makeDummyHybrid(b) ELSE Concrete(b)
     IN /\ state' = saveBoolIfHybrid(c, state)
        /\ ret' = saveBoolIfHybridResult(c)
        /\ env' = [env EXCEPT ![FlagNames[k]] = Concrete(b)]
  /\ pc' = IF pc.depth < prog.depth THEN At("enter", pc.depth)
           ELSE At("update", pc.depth)
  /\ lastHook' = "saveBool"
  /\ UNCHANGED <<call, prog, result, run, verdict1, hist>>

\* trackLoc(loc);  v = saveVar(v + step)
Update ==
  /\ pc.at = "update"
  /\ LET k  == pc.depth
         v  == VarNames[k]
         s1 == trackLoc(UpdateLoc(k), state)
         d  == DescOf(k)
         x  == evaluateHybridBinary("+", hybridize(env[v], v, s1),
                 IF env[FlagNames[k]].concrete.n = 1 THEN Towards(d) ELSE d.step)
     IN /\ state' = saveVarIfHybrid(x, v, s1)
        /\ env' = [env EXCEPT ![v] = x]
        /\ ret' = x
        /\ hist' = [hist EXCEPT !.tracked = TRUE, !.lastTrackLoc = UpdateLoc(k)]
  /\ pc' = At("postLoop", pc.depth)
  /\ lastHook' = "saveVar"
  /\ UNCHANGED <<call, prog, result, run, verdict1>>

\* postLoop(state) at the end of the loop body
PostLoop ==
  /\ pc.at = "postLoop"
  /\ Len(state.loopStack[1]) < MaxFrames \/ hasTimedOut(state)
  /\ LET s1 == postLoop(state)
     IN /\ state' = s1
        /\ pc' = After(s1, At("guard", pc.depth))
        /\ hist' = [hist EXCEPT
             !.posts[1] = IF s1.thrown = "none" THEN @ + 1 ELSE @,
             !.checks[1] = @ + (s1.inferences - state.inferences),
             !.offered[1] = IF hasTimedOut(state) THEN @
                            ELSE Append(@, Len(state.loopStack[1]) - 1)]
  /\ ret' = UndefinedValue
  /\ lastHook' = "postLoop"
  /\ UNCHANGED <<call, prog, env, result, run, verdict1>>

\* exitLoop(state) after the loop; the enclosing body goes on
Exit ==
  /\ pc.at = "exit"
  /\ state' = exitLoop(state)
  /\ pc' = IF pc.depth > 1 THEN At("update", pc.depth - 1) ELSE At("done", 0)
  /\ ret' = UndefinedValue
  /\ lastHook' = "exitLoop"
  /\ hist' = [hist EXCEPT !.entered = Tail(@), !.posts = Tail(@),
                          !.checks = Tail(@), !.offered = Tail(@)]
  /\ UNCHANGED <<call, prog, env, result, run, verdict1>>

\* the clock passes the budget: hasTimedOut() is true from now on.  Nothing
\* reads the clock between two loop hooks, so it is advanced just before one
Tick ==
  /\ pc.at \in {"postLoop", "exit"}
  /\ ~state.expired
  /\ state' = [state EXCEPT !.expired = TRUE]
  /\ UNCHANGED <<call, prog, env, pc, ret, lastHook, result, run, verdict1, hist>>

\* the value testForInfiniteLoop returns: the try/catch around sandboxedRun
testForInfiniteLoop(s) ==
  IF s.thrown = "InfiniteLoopError"
  THEN [kind |-> "InfiniteLoopError", name |-> s.error.name,
        location |-> IF s.lastLocation # NoLoc THEN s.lastLocation
                     ELSE s.error.location]
  ELSE [kind |-> "undefined", name |-> NoName, location |-> NoLoc]

Return ==
  /\ pc.at \in {"thrown", "done"}
  /\ result' = testForInfiniteLoop(state)
  /\ pc' = At("returned", pc.depth)
  /\ UNCHANGED <<state, call, prog, env, ret, lastHook, run, verdict1, hist>>

\* testForInfiniteLoop is called again with the same code
Rerun ==
  /\ pc.at = "returned"
  /\ run = 1
  /\ run' = 2
  /\ verdict1' = [result |-> result, timedOut |-> state.thrown = "timeout"]
  /\ state' = FreshState(state, prog.threshold)
  /\ env' = [v \in Vars \cup Flags |-> NoValue]
  /\ pc' = At("enter", 0)
  /\ ret' = UndefinedValue
  /\ lastHook' = "none"
  /\ result' = NoResult
  /\ hist' = NoHist
  /\ UNCHANGED <<call, prog>>

Program == Enter \/ Guard \/ Branch \/ Update \/ PostLoop \/ Exit \/ Return

Next == Program \/ Tick

Spec == Init /\ [][Next]_vars

\* the program runs on until it returns or throws: JS runs to completion
FairSpec == Spec /\ WF_vars(Program)

\* two runs of the driver on each single-loop program
TwiceInit == Init /\ prog.depth = 1

TwiceNext == Next \/ Rerun

TwiceSpec == TwiceInit /\ [][TwiceNext]_vars

----------------------------------------------------------------------------
(* Properties of the driver and the loop hooks *)

Raised(kind) == state.thrown = kind

\* the loop neither has an untracked branch nor moves towards its bound
Diverging(d) == d.cond = "none" /\ d.step # 0 /\ d.step # Towards(d)

\* C1: testForInfiniteLoop returns a diagnostic whenever the run raised an
\* InfiniteLoopError or the timeout error, and undefined only when the run
\* completed without raising.
C1_RaiseIsReported ==
  pc.at = "returned" => (result.kind = "undefined" <=> Raised("none"))

\* C2: a loop that exits after finitely many iterations never makes the
\* detector raise InfiniteLoopError, whatever the threshold.
C2_NoFalsePositive ==
  Raised("InfiniteLoopError") => ~LoopExits(DescOf(pc.depth))

\* the inference has run over two or more frames of a loop that exits
C2_Witness ==
  /\ pc.at = "guard"
  /\ LoopExits(DescOf(pc.depth))
  /\ hist.checks[1] >= 1
  /\ hist.posts[1] >= 3

\* C3: a loop whose guard reads one tracked variable that moves strictly
\* away from the bound is reported: the inference runs at most twice on it,
\* and unless the budget runs out the run ends in InfiniteLoopError (the
\* loops nested in it, if any, exit or are reported themselves).
C3_Doomed ==
  /\ Running
  /\ pc.depth >= 1
  /\ \E k \in 1..pc.depth :
       /\ Diverging(DescOf(k))
       /\ \A j \in (k+1)..prog.depth :
            LoopExits(DescOf(j)) \/ Diverging(DescOf(j))

C3_DivergenceDetected ==
  /\ [](\A i \in 1..Len(hist.checks) :
          Diverging(DescOf(Len(hist.checks) - i + 1)) => hist.checks[i] <= 2)
  /\ (C3_Doomed ~> (Raised("InfiniteLoopError") \/ state.expired))

C3_Witness ==
  /\ Raised("InfiniteLoopError")
  /\ Diverging(DescOf(pc.depth))
  /\ ~state.expired

\* C5: within one loop the history offered to the dispatch policy grows by
\* exactly one per postLoop, every checkpoint T * 2^k is hit exactly once,
\* and after n postLoop calls the inference has run at most
\* floor(log2(n / T)) + 1 times (not at all while n < T).
C5_LogarithmicChecks ==
  \A i \in 1..Len(hist.offered) :
    LET n == Len(hist.offered[i])
        c == hist.checks[i]
        T == state.threshold
    IN /\ hist.offered[i] = [j \in 1..n |-> j - 1]
       /\ c = Cardinality({k \in 0..n : T * 2^k <= n - 1})
       /\ c >= 1 => T * 2^(c - 1) <= n

\* two checkpoints of one loop have been hit
C5_Witness ==
  /\ pc.at = "guard"
  /\ hist.checks[1] >= 2
  /\ Len(hist.offered[1]) > 2 * state.threshold

\* C7: the front of the loop stack is the tracker of the innermost running
\* loop: enterLoop puts a tracker of one new frame in front, postLoop
\* appends one frame to the front tracker only, exitLoop removes the
\* tracker its matching enterLoop pushed, and the outer trackers stay as
\* they are.
C7_StackFollowsNesting ==
  /\ Len(state.loopStack) = Len(hist.entered)
  /\ pc.at \in {"guard", "branch", "update", "postLoop", "exit"}
       => Len(state.loopStack) = pc.depth
  /\ \A i \in 1..Len(state.loopStack) :
       /\ state.loopStack[i][1] = hist.entered[i]
       /\ Len(state.loopStack[i]) = hist.posts[i] + 1

C7_HookSteps ==
  LET ls  == state.loopStack
      ls2 == state'.loopStack
  IN CASE pc.at = "enter" /\ pc' # pc ->
            /\ ls2 = << <<Len(state'.mixedStack)>> >> \o ls
            /\ Len(state'.mixedStack) = Len(state.mixedStack) + 1
       [] pc.at = "postLoop" /\ pc'.at = "guard" ->
            /\ ls2 = [ls EXCEPT ![1] = Append(@, Len(state'.mixedStack))]
            /\ Len(state'.mixedStack) = Len(state.mixedStack) + 1
       [] pc.at = "exit" /\ pc' # pc ->
            /\ ls2 = Tail(ls)
            /\ ls[1][1] = hist.entered[1]
       [] OTHER -> ls2 = ls

C7_LoopStackDiscipline == []C7_StackFollowsNesting /\ [][C7_HookSteps]_vars

\* a nested loop has exited inside the second or a later iteration of the
\* loop around it
C7_Witness ==
  /\ lastHook = "exitLoop"
  /\ Len(state.loopStack) = 1
  /\ Len(state.loopStack[1]) >= 2

C10_LastLocationReported ==
  /\ result.kind = "InfiniteLoopError" /\ hist.tracked
       => result.location = hist.lastTrackLoc
  /\ hist.tracked /\ Running => state.lastLocation = hist.lastTrackLoc
  /\ \A loc \in {NoLoc, GuardLoc(1), GuardLoc(2)} :
       trackLoc(loc, state) = [state EXCEPT !.lastLocation = loc]
  /\ trackLocResult(TRUE, ret) = ret
  /\ trackLocResult(FALSE, ret) = UndefinedValue

\* a loop was reported at the location of its update statement
C10_Witness ==
  /\ pc.at = "returned"
  /\ result.kind = "InfiniteLoopError"
  /\ result.location = UpdateLoc(1)
  /\ hist.lastTrackLoc = UpdateLoc(1)

----------------------------------------------------------------------------
(* dispatchIfMeetsThreshold, stepped through its while loop, on histories  *)
(* of every length up to MaxHistory and every threshold from 0 on.  The    *)
(* frames of the history are blank (no verdict) or stable (a verdict as    *)
(* soon as two of them are analysed).                                      *)

MaxHistory     == 8   \* longest history handed to the dispatch policy
MaxInvocations == 3   \* inference runs counted in one dispatch call

StableFrame ==
  [loc |-> NoLoc,
   vars |-> [v \in Vars |->
              IF v = VarNames[1]
              THEN Hybrid("value", Num(0), Identifier(v), FALSE, NoExpr)
              ELSE NoValue],
   path |-> BinaryExpression(VarNames[1], "<", GuardBound),
   invalid |-> FALSE]

BlankFrame ==
  [loc |-> NoLoc, vars |-> [v \in Vars |-> NoValue], path |-> NoExpr,
   invalid |-> FALSE]

\* a State whose frames 2..n+1 are the history
StateWithHistory(threshold, n, stable) ==
  [NewState(threshold, threshold) EXCEPT
     !.mixedStack = [i \in 1..(n + 1) |->
                       IF stable /\ i > 1 THEN StableFrame ELSE BlankFrame]]

IdleProgram == [depth |-> 1, outer |-> PlainDesc, inner |-> PlainDesc, threshold |-> 1]

\* the variables of the loop programs, at rest
LoopProgramIdle ==
  /\ prog = IdleProgram
  /\ env = [v \in Vars \cup Flags |-> NoValue]
  /\ ret = UndefinedValue
  /\ result = NoResult
  /\ run = 1
  /\ verdict1 = NoVerdict

DispatchInit ==
  /\ LoopProgramIdle
  /\ \E threshold \in 0..MaxThreshold, n \in 0..MaxHistory, stable \in BOOLEAN :
       /\ state = StateWithHistory(threshold, n, stable)
       /\ call = [NoCall EXCEPT !.name = "dispatchIfMeetsThreshold",
                                !.at = "start",
                                !.stackPositions = [i \in 1..n |-> i + 1]]
  /\ pc = At("dispatch", 0)
  /\ lastHook = "none"
  /\ hist = NoHist

\* let checkpoint = state.threshold
DispatchStart ==
  /\ call.name = "dispatchIfMeetsThreshold"
  /\ call.at = "start"
  /\ call' = [call EXCEPT !.at = "while", !.checkpoint = state.threshold]
  /\ UNCHANGED <<state, prog, env, pc, ret, lastHook, result, run, verdict1, hist>>

\* one turn of the loop: the test against the length, then the doubling
DispatchTurn ==
  /\ call.name = "dispatchIfMeetsThreshold"
  /\ call.at = "while"
  /\ call.checkpoint <= Len(call.stackPositions)
  /\ call.invoked < MaxInvocations
  /\ IF Len(call.stackPositions) = call.checkpoint
     THEN LET s1 == checkForInfiniteLoop(call.stackPositions, state,
                                         call.functionName)
          IN /\ state' = s1
             /\ call' = [call EXCEPT
                  !.invoked = @ + 1,
                  !.analysed = call.stackPositions,
                  !.at = IF s1.thrown # "none" THEN "thrown" ELSE "while",
                  !.checkpoint = IF s1.thrown # "none" THEN @
                                 ELSE NextCheckpoint(@)]
     ELSE /\ state' = state
          /\ call' = [call EXCEPT !.checkpoint = NextCheckpoint(@)]
  /\ lastHook' = "dispatchIfMeetsThreshold"
  /\ UNCHANGED <<prog, env, pc, ret, result, run, verdict1, hist>>

\* the loop condition fails: the call returns
DispatchReturn ==
  /\ call.name = "dispatchIfMeetsThreshold"
  /\ call.at = "while"
  /\ call.checkpoint > Len(call.stackPositions)
  /\ call' = [call EXCEPT !.at = "returned"]
  /\ UNCHANGED <<state, prog, env, pc, ret, lastHook, result, run, verdict1, hist>>

DispatchNext == DispatchStart \/ DispatchTurn \/ DispatchReturn

DispatchSpec == DispatchInit /\ [][DispatchNext]_vars

IsCheckpoint(n, threshold) == \E k \in 0..n : n = threshold * 2^k

\* C4: one call of dispatchIfMeetsThreshold with a threshold T >= 1 runs the
\* inference exactly once when the history length is T * 2^k for some
\* k >= 0 and not at all otherwise, and the inference gets the history that
\* was passed in, unchanged.
C4_ExactCheckpoints ==
  LET n == Len(call.stackPositions)
  IN state.threshold >= 1 =>
       /\ call.invoked <= 1
       /\ call.invoked = 1 =>
            /\ IsCheckpoint(n, state.threshold)
            /\ call.analysed = call.stackPositions
            /\ call.analysed = [i \in 1..n |-> i + 1]
       /\ call.at \in {"returned", "thrown"} =>
            (call.invoked = 1 <=> IsCheckpoint(n, state.threshold))
       /\ call.at \in {"returned", "thrown"} =>
            state = dispatchIfMeetsThreshold(
                      call.stackPositions,
                      StateWithHistory(state.threshold, n,
                                       state.mixedStack[n + 1] = StableFrame),
                      call.functionName)

\* a history at the second checkpoint of its threshold was analysed
C4_Witness ==
  /\ call.at = "returned"
  /\ call.invoked = 1
  /\ state.threshold >= 2
  /\ Len(call.stackPositions) = 2 * state.threshold

----------------------------------------------------------------------------
(* saveBoolIfHybrid on every kind of value, MaxBoolCalls calls in a row *)

MaxBoolCalls == 3

Tracked == BinaryExpression(VarNames[1], "<", GuardBound)

ArrayValue == [t |-> "array", n |-> 0]

BoolValues ==
  {Hybrid("value", Bool(b), Tracked, FALSE, neg) :
     b \in BOOLEAN, neg \in {NoExpr, BinaryExpression(VarNames[1], ">=", GuardBound)}}
  \cup {makeDummyHybrid(Bool(b)) : b \in BOOLEAN}
  \cup {Hybrid("value", Bool(b), Literal(IF b THEN 1 ELSE 0), FALSE, NoExpr) :
          b \in BOOLEAN}
  \cup {Hybrid("array", ArrayValue, Identifier(VarNames[1]), FALSE, NoExpr)}
  \cup {Concrete(Bool(b)) : b \in BOOLEAN}

BoolInit ==
  /\ LoopProgramIdle
  /\ state = NewState(1, 1)
  /\ call = [name |-> "saveBoolIfHybrid", n |-> 0, arg |-> UndefinedValue,
             before |-> BlankFrame]
  /\ pc = At("bool", 0)
  /\ lastHook = "none"
  /\ hist = NoHist

SaveBool ==
  /\ call.n < MaxBoolCalls
  /\ \E value \in BoolValues :
       /\ state' = saveBoolIfHybrid(value, state)
       /\ ret' = saveBoolIfHybridResult(value)
       /\ call' = [call EXCEPT !.n = @ + 1, !.arg = value,
                               !.before = state.mixedStack[stackPointer(state)]]
  /\ lastHook' = "saveBool"
  /\ UNCHANGED <<prog, env, pc, result, run, verdict1, hist>>

BoolNext == SaveBool

BoolSpec == BoolInit /\ [][BoolNext]_vars

\* C9: saveBoolIfHybrid returns the concrete truth value of its input, never
\* a symbolic wrapper, for every kind of input value.
C9_ReturnsConcrete ==
  call.n >= 1 => ~isHybrid(ret) /\ ret = Concrete(call.arg.concrete)

----------------------------------------------------------------------------
(* Functions and streams: the program calls and leaves functions named in  *)
(* FunNames and tests lists and streams with is_null.                      *)

MaxStreamThreshold == 1   \* stream thresholds 0..MaxStreamThreshold
MaxCallDepth       == 2   \* calls the program nests
MaxStackFrames     == 4   \* frames one run records

\* counts are followed up to the call after the one that throws
MaxStreamCount(s) == s.streamThreshold + 3

ListValues ==
  {Concrete(Null), Concrete(Pair), Concrete(Stream(-1)), Concrete(Stream(1)),
   Hybrid("value", Stream(0), Identifier(VarNames[1]), FALSE, NoExpr)}

StreamHist == [fn |-> NoName, streak |-> 0]

StreamInit ==
  /\ LoopProgramIdle
  /\ \E st \in 0..MaxStreamThreshold : state = NewState(MaxThreshold, st)
  /\ call = NoCall
  /\ pc = At("body", 0)
  /\ lastHook = "none"
  /\ hist = StreamHist

\* the program calls f or g: preFunction(name, args, state)
CallFunction ==
  /\ pc.at = "body"
  /\ pc.depth < MaxCallDepth
  /\ Len(state.mixedStack) < MaxStackFrames
  /\ \E name \in FunNames :
       LET s1 == preFunction(name, << >>, state)
       IN /\ state' = s1
          /\ pc' = IF s1.thrown # "none" THEN At("thrown", pc.depth)
                   ELSE At("body", pc.depth + 1)
  /\ ret' = UndefinedValue
  /\ lastHook' = "preFunction"
  /\ hist' = IF getLastFunctionName(state') = getLastFunctionName(state)
             THEN hist ELSE StreamHist
  /\ UNCHANGED <<call, prog, env, result, run, verdict1>>

\* return returnFunction(value, state)
ReturnFunction ==
  /\ pc.at = "body"
  /\ pc.depth > 0
  /\ state' = returnFunction(UndefinedValue, state)
  /\ pc' = At("body", pc.depth - 1)
  /\ ret' = UndefinedValue
  /\ lastHook' = "returnFunction"
  /\ hist' = IF getLastFunctionName(state') = getLastFunctionName(state)
             THEN hist ELSE StreamHist
  /\ UNCHANGED <<call, prog, env, result, run, verdict1>>

\* is_null(xs, state), called through the builtin table of the run
IsNull ==
  /\ pc.at = "body"
  /\ \E xs \in ListValues :
       LET s1 == is_null(xs, TRUE, state)
           fn == getLastFunctionName(state)
           counted == s1.thrown = "none"
                      /\ TailIsFunction(shallowConcretize(xs).concrete)
       IN /\ StreamCount(state, fn) < MaxStreamCount(state)
          /\ state' = s1
          /\ pc' = IF s1.thrown # "none" THEN At("thrown", pc.depth) ELSE pc
          /\ ret' = IF s1.thrown # "none" THEN UndefinedValue
                    ELSE is_nullResult(xs, TRUE)
          /\ hist' = IF counted
                     THEN [fn |-> fn,
                           streak |-> IF hist.fn = fn /\ hist.streak > 0
                                      THEN hist.streak + 1 ELSE 1]
                     ELSE hist
  /\ lastHook' = "is_null"
  /\ UNCHANGED <<call, prog, env, result, run, verdict1>>

\* is_null(xs) without a state
IsNullNoState ==
  /\ pc.at = "body"
  /\ \E xs \in ListValues :
       /\ state' = is_null(xs, FALSE, state)
       /\ ret' = is_nullResult(xs, FALSE)
  /\ lastHook' = "is_null"
  /\ UNCHANGED <<call, prog, env, pc, result, run, verdict1, hist>>

\* the clock passes the budget before a function is entered
StreamTick ==
  /\ pc.at = "body"
  /\ ~state.expired
  /\ state' = [state EXCEPT !.expired = TRUE]
  /\ UNCHANGED <<call, prog, env, pc, ret, lastHook, result, run, verdict1, hist>>

\* the program ends
Finish ==
  /\ pc = At("body", 0)
  /\ pc' = At("done", 0)
  /\ UNCHANGED <<state, call, prog, env, ret, lastHook, result, run, verdict1, hist>>

StreamNext ==
  \/ CallFunction \/ ReturnFunction \/ IsNull \/ IsNullNoState
  \/ StreamTick \/ Finish \/ Return

StreamSpec == StreamInit /\ [][StreamNext]_vars

\* C6: is_null calls on streams that follow one another while the current
\* function stays the same: after more than streamThreshold of them the
\* state is in stream mode for that function, and the next one raises the
\* timeout error, so there is never one more to return.
C6_StreamModeThenTimeout ==
  /\ hist.streak > state.streamThreshold /\ pc.at = "body"
       => /\ state.streamMode
          /\ state.streamLastFunction = hist.fn
          /\ getLastFunctionName(state) = hist.fn
          /\ \A xs \in ListValues :
               TailIsFunction(shallowConcretize(xs).concrete)
                 => is_null(xs, TRUE, state).thrown = "timeout"
  /\ hist.streak <= state.streamThreshold + 1

\* the probe has thrown after streamThreshold + 1 counted calls in f
C6_Witness ==
  /\ Raised("timeout")
  /\ lastHook = "is_null"
  /\ state.streamThreshold >= 1
  /\ hist.streak = state.streamThreshold + 1
  /\ hist.fn \in FunNames

----------------------------------------------------------------------------
(* The timeout at the boundaries of loops and functions *)

\* a hook of a loop boundary is called with the budget already exceeded
C11_BoundaryStep ==
  state.expired /\ pc.at \in {"enter", "postLoop", "exit"} /\ pc' # pc
    => state'.thrown = "timeout"

\* C11: once hasTimedOut() is true, the next call of enterLoop, postLoop or
\* exitLoop (and of preFunction or returnFunction) raises the timeout error.
C11_TimeoutAtEveryBoundary == [][C11_BoundaryStep]_vars

----------------------------------------------------------------------------
(* The steps of one postLoop call *)

\* one postLoop call seen from outside: what it was given and what it left
C12_PostLoopStep ==
  pc.at = "postLoop" /\ pc' # pc =>
    LET front   == state.loopStack[1]
        history == SubSeq(front, 1, Len(front) - 1)
        ran     == state'.inferences - state.inferences
        marked  == {v \in Vars : isHybrid(state.variablesModified[v])}
    IN /\ state.expired =>
            /\ state'.thrown = "timeout"
            /\ ran = 0
            /\ state'.loopStack = state.loopStack
            /\ state'.variablesToReset = state.variablesToReset
       /\ ~state.expired =>
            /\ ran = IF IsCheckpoint(Len(history), state.threshold) THEN 1 ELSE 0
            /\ state'.thrown \in {"none", "InfiniteLoopError"}
            /\ state'.thrown = "InfiniteLoopError"
                 <=> ran = 1 /\ CertainlyInfinite(FramesAt(state, history))
       /\ state'.thrown = "InfiniteLoopError" =>
            /\ state'.loopStack = state.loopStack
            /\ state'.mixedStack = state.mixedStack
            /\ state'.variablesToReset = state.variablesToReset
       /\ state'.thrown = "none" =>
            /\ state'.variablesToReset = state.variablesToReset \cup marked
            /\ Len(state'.mixedStack) = Len(state.mixedStack) + 1
            /\ state'.loopStack =
                 [state.loopStack EXCEPT ![1] = Append(front, Len(state'.mixedStack))]
            /\ \A i \in 1..Len(history) : history[i] < Len(state'.mixedStack)
            /\ state'.mixedStack[Len(state'.mixedStack)].vars = state.variablesModified

\* C12: a postLoop call checks the timeout first, then hands the dispatch the
\* frames of the innermost tracker without its newest one, then marks the
\* modified variables pending-reset, then appends exactly one new frame to
\* the innermost tracker; the appended frame is not in the history analysed.
C12_PostLoopOrder == [][C12_PostLoopStep]_vars

\* a postLoop that ran the inference over two or more frames has returned
C12_Witness ==
  /\ lastHook = "postLoop"
  /\ pc.at = "guard"
  /\ hist.checks[1] >= 1
  /\ Len(state.loopStack[1]) >= 4
  /\ state.variablesToReset # {}

----------------------------------------------------------------------------
(* Calls of functions, direct and through the wrapper of wrapArgIfFunction: *)
(* the target is a function of the program (it starts with preFunction) or *)
(* a builtin (it does not).                                                 *)

\* the last invocation: n flips with every invocation made
NoInvocation == [n |-> 0, name |-> NoName, wrapped |-> FALSE, hook |-> FALSE]

CallInit ==
  /\ LoopProgramIdle
  /\ \E t \in Thresholds : state = NewState(t, t)
  /\ call = NoInvocation
  /\ pc = At("body", 0)
  /\ lastHook = "none"
  /\ hist = NoHist

\* name(...): the body starts with preFunction(name, args, state)
CallDirect ==
  /\ pc.at = "body"
  /\ pc.depth < MaxCallDepth
  /\ Len(state.mixedStack) < MaxStackFrames
  /\ \E name \in FunNames :
       LET s1 == preFunction(name, << >>, state)
       IN /\ state' = s1
          /\ pc' = After(s1, At("body", pc.depth + 1))
          /\ call' = [n |-> 1 - call.n, name |-> name, wrapped |-> FALSE, hook |-> TRUE]
  /\ lastHook' = "preFunction"
  /\ UNCHANGED <<prog, env, ret, result, run, verdict1, hist>>

\* wrapper(...) of a function of the program: the flag, then its preFunction
CallWrapped ==
  /\ pc.at = "body"
  /\ pc.depth < MaxCallDepth
  /\ Len(state.mixedStack) < MaxStackFrames
  /\ \E name \in FunNames :
       LET s1 == preFunction(name, << >>, wrapperInvoke(state))
       IN /\ state' = s1
          /\ pc' = After(s1, At("body", pc.depth + 1))
          /\ call' = [n |-> 1 - call.n, name |-> name, wrapped |-> TRUE, hook |-> TRUE]
  /\ lastHook' = "preFunction"
  /\ UNCHANGED <<prog, env, ret, result, run, verdict1, hist>>

\* wrapper(...) of a builtin: the flag, then the builtin, which has no hooks
CallWrappedBuiltin ==
  /\ pc.at = "body"
  /\ state' = wrapperInvoke(state)
  /\ call' = [n |-> 1 - call.n, name |-> NoName, wrapped |-> TRUE, hook |-> FALSE]
  /\ lastHook' = "none"
  /\ UNCHANGED <<prog, env, pc, ret, result, run, verdict1, hist>>

\* return returnFunction(value, state)
CallReturn ==
  /\ pc.at = "body"
  /\ pc.depth > 0
  /\ state' = returnFunction(UndefinedValue, state)
  /\ pc' = At("body", pc.depth - 1)
  /\ lastHook' = "returnFunction"
  /\ UNCHANGED <<call, prog, env, ret, result, run, verdict1, hist>>

\* the clock passes the budget before a function is entered
CallTick ==
  /\ pc.at = "body"
  /\ ~state.expired
  /\ state' = [state EXCEPT !.expired = TRUE]
  /\ UNCHANGED <<call, prog, env, pc, ret, lastHook, result, run, verdict1, hist>>

CallNext == CallDirect \/ CallWrapped \/ CallWrappedBuiltin \/ CallReturn \/ CallTick

CallSpec == CallInit /\ [][CallNext]_vars

\* an invocation made through the wrapper of a function of the program
C13_WrappedStep ==
  call'.n # call.n /\ call'.hook =>
    LET star == Starred(call'.name)
    IN /\ state'.thrown = "none" => ~state'.functionWasPassedAsArgument
       /\ call'.wrapped =>
            /\ state'.thrown \in {"none", "timeout"}
            /\ state'.inferences = state.inferences
            /\ state'.thrown = "none" =>
                 /\ Len(state'.mixedStack) = Len(state.mixedStack) + 1
                 /\ state'.functionTrackers =
                      [state.functionTrackers EXCEPT
                         ![star] = Append(@, Len(state'.mixedStack))]
                 /\ getLastFunctionName(state') = star

\* C13: an invocation made through a wrapper of wrapArgIfFunction is recorded
\* by preFunction in the tracker '*' + name and in no other, never runs the
\* dispatch policy, and gets one new frame; after every preFunction call
\* that returns, the passed-as-argument flag is false.
C13_WrappedInvocation == [][C13_WrappedStep]_vars

\* the third wrapped invocation of f, where a direct one would be dispatched
C13_Witness ==
  /\ call.wrapped /\ call.hook /\ call.name = "f"
  /\ state.thrown = "none"
  /\ state.threshold = 1
  /\ Len(state.functionTrackers["*f"]) = 3
  /\ state.inferences = 0

\* an invocation made directly, not through a wrapper
C14_DirectStep ==
  call'.n # call.n /\ call'.hook /\ ~call'.wrapped /\ state'.thrown # "timeout" =>
    LET name    == call'.name
        tracker == state.functionTrackers[name]
    IN /\ state'.inferences - state.inferences =
            IF tracker # << >> /\ IsCheckpoint(Len(tracker) - 1, state.threshold)
            THEN 1 ELSE 0
       /\ state'.thrown = "none" =>
            /\ state'.functionTrackers =
                 [state.functionTrackers EXCEPT
                    ![name] = Append(@, Len(state'.mixedStack))]
            /\ getLastFunctionName(state') = name

\* C14: a direct invocation is recorded by preFunction under its own name and
\* offered to the dispatch policy, whatever wrapper invocations came before
\* it, those of builtins included.
C14_DirectInvocation == [][C14_DirectStep]_vars

----------------------------------------------------------------------------
(* Reads of a variable marked pending-reset *)

\* the guard of loop k reads its variable through hybridize
C15_ReadStep ==
  pc.at = "guard" /\ pc' # pc =>
    /\ VarNames[pc.depth] \notin state'.variablesToReset
    /\ hybridize(env'[VarNames[pc.depth]], VarNames[pc.depth], state')
         = hybridizeNamed(VarNames[pc.depth], env'[VarNames[pc.depth]])

\* C15: the first read of a variable marked pending-reset through hybridize
\* resets it and clears the mark, so the next read, with no
\* cleanUpVariables in between, does not deep-concretize again.
C15_ReadClearsMark == [][C15_ReadStep]_vars

----------------------------------------------------------------------------
(* What one saveBoolIfHybrid call does to the path *)

\* the expression that stands for the branch taken
C16_BranchExpr(v) ==
  IF Truthy(v.concrete) THEN v.symbolic
  ELSE IF v.negation # NoExpr THEN v.negation
  ELSE [v.symbolic EXCEPT !.bang = TRUE]

C16_SaveBoolStep ==
  call'.n # call.n =>
    LET v   == call'.arg
        sp  == Len(state.mixedStack)
        sym == isHybrid(v) /\ v.type = "value"
    IN CASE ~sym \/ v.invalid ->
              state' = [state EXCEPT !.mixedStack[sp].invalid = TRUE]
         [] sym /\ ~v.invalid /\ v.symbolic.type # "Literal" ->
              state' = [state EXCEPT !.mixedStack[sp].path = C16_BranchExpr(v)]
         [] OTHER -> state' = state

\* C16: one saveBoolIfHybrid call marks the path invalid and saves nothing
\* (an invalid-path symbolic value, or a value that is no symbolic value),
\* or saves exactly one expression, the value's own when it is truthy and
\* its negation when it is falsy (a valid symbolic value that is no
\* literal), or changes nothing (a valid symbolic literal).
C16_OneOfThree == [][C16_SaveBoolStep]_vars

\* a falsy symbolic value without stored negation was saved as '!' of itself,
\* after the path had been marked invalid by an earlier call
C16_Witness ==
  /\ call.n >= 2
  /\ isHybrid(call.arg) /\ ~call.arg.invalid /\ call.arg.negation = NoExpr
  /\ ~Truthy(call.arg.concrete)
  /\ state.mixedStack[Len(state.mixedStack)].path.bang
  /\ state.mixedStack[Len(state.mixedStack)].invalid

----------------------------------------------------------------------------
(* The probe of a stream: is_null in stream mode, and the loop of           *)
(* testIfInfiniteStream taken one turn at a time.                           *)

MaxTails == 5   \* the longest stream that ends yields MaxTails tails

\* streams that end after 0..MaxTails tails, and the one that never ends
ProbeStreams == {Stream(n) : n \in -1..MaxTails}

NoProbe ==
  [name |-> "is_null", at |-> "idle", stream |-> Null, next |-> Null,
   i |-> 0, probed |-> 0, ended |-> FALSE]

ProbeInit ==
  /\ LoopProgramIdle
  /\ \E t \in 0..MaxThreshold : state = NewState(t, 0)
  /\ \E c \in ProbeStreams : call = [NoProbe EXCEPT !.stream = c]
  /\ pc = At("body", 0)
  /\ lastHook = "none"
  /\ hist = NoHist

\* the null-test that is counted: with streamThreshold 0 it turns stream
\* mode on
ProbeCount ==
  /\ call.at = "idle"
  /\ ~state.streamMode
  /\ \E hybrid \in BOOLEAN :
       LET xs == IF hybrid
                 THEN Hybrid("value", call.stream, Identifier(VarNames[1]), FALSE, NoExpr)
                 ELSE Concrete(call.stream)
       IN /\ state' = is_null(xs, TRUE, state)
          /\ ret' = is_nullResult(xs, TRUE)
  /\ lastHook' = "is_null"
  /\ UNCHANGED <<call, prog, env, pc, result, run, verdict1, hist>>

\* the null-test in stream mode: theTail() is forced and handed to the probe;
\* let next = stream
ProbeStart ==
  /\ call.at = "idle"
  /\ state.streamMode /\ state.streamLastFunction = getLastFunctionName(state)
  /\ call' = [call EXCEPT !.at = "loop", !.next = CallTail(call.stream), !.i = 0]
  /\ lastHook' = "is_null"
  /\ UNCHANGED <<state, prog, env, pc, ret, result, run, verdict1, hist>>

\* one turn of  for (let i = 0; i <= state.threshold; i++)
ProbeTurn ==
  /\ call.at = "loop"
  /\ call.i <= state.threshold
  /\ call' = IF stdList_is_null(call.next)
             THEN [call EXCEPT !.at = "left", !.ended = TRUE]
             ELSE IF TailIsFunction(call.next)
             THEN [call EXCEPT !.next = CallTail(call.next),
                               !.probed = @ + 1, !.i = @ + 1]
             ELSE [call EXCEPT !.at = "left", !.ended = TRUE]
  /\ UNCHANGED <<state, prog, env, pc, ret, lastHook, result, run, verdict1, hist>>

\* the loop is over, by its condition or by a break: throw new Error('timeout')
ProbeThrow ==
  /\ \/ call.at = "left"
     \/ call.at = "loop" /\ call.i > state.threshold
  /\ state' = testIfInfiniteStream(Concrete(call.next), state)
  /\ call' = [call EXCEPT !.at = "over"]
  /\ pc' = After(state', pc)
  /\ UNCHANGED <<prog, env, ret, lastHook, result, run, verdict1, hist>>

ProbeNext == ProbeCount \/ ProbeStart \/ ProbeTurn \/ ProbeThrow

ProbeSpec == ProbeInit /\ [][ProbeNext]_vars

\* C17: in stream mode one null-test forces at most `threshold` further
\* tails of the stream before it stops probing.
C17_ProbeBound == call.name = "is_null" => call.probed <= state.threshold

\* C18: the probe raises the timeout error only if no probed element ends the
\* stream; when the stream reaches null within the probe bound nothing is
\* raised and the null-test returns.
C18_RaiseOnlyIfEndless ==
  call.name = "is_null" /\ call.at = "over" /\ call.ended => state.thrown = "none"

----------------------------------------------------------------------------
(* The value is_null returns *)

\* the standard null test, applied to the concretized argument
C19_Standard(xs) == Concrete(Bool(stdList_is_null(shallowConcretize(xs).concrete)))

\* C19: whenever the is_null override returns, what it returns is the result
\* of the standard null test on the concretized argument, with a state and
\* without one, whatever it counted on the side.
C19_SameAsStandard ==
  lastHook = "is_null" /\ call.at = "idle" /\ state.thrown = "none"
    => ret = C19_Standard(Concrete(call.stream))

----------------------------------------------------------------------------
(* Termination of the checkpoint loop *)

\* a turn of the loop that stays in the loop has moved the checkpoint up
C20_DoublingStep ==
  /\ call.name = "dispatchIfMeetsThreshold"
  /\ call.at = "while" /\ call'.at = "while"
  => call'.checkpoint > call.checkpoint

\* C20: dispatchIfMeetsThreshold terminates for every history length and
\* every threshold, 0 included: each doubling brings the checkpoint nearer
\* to passing the history length, which it does after finitely many.
C20_CheckpointLoopTerminates == [][C20_DoublingStep]_vars

====
